---- MODULE Spec2Model ----
(***************************************************************************)
(* Model of tailscale_module.py: the Waybar Tailscale module.              *)
(*                                                                         *)
(* Every run of the program (status refresh, click, scroll, auto-resume    *)
(* firing) is an operating-system process of its own.  The processes share *)
(* the two files in the temporary directory, the tailscale agent and the   *)
(* wall clock, and nothing else.  A process is a slot of proc: its kind,   *)
(* its position (pc) and its local variables.  One step of a process is    *)
(* one access to something shared (agent command, file existence test,     *)
(* file read, file write, file delete, process launch); the local          *)
(* computation that follows an access is part of the same step.            *)
(* Time is counted in minutes, the unit of pause_durations.                *)
(***************************************************************************)
EXTENDS Integers, Sequences, FiniteSets, TLC

\* ----------------------------------------------------------------- bounds
MaxTime == 1         \* the clock runs from 0 to MaxTime
MaxPauses == 2       \* pause records written in one behaviour

\* -------------------------------------------------------------- constants
pause_durations == <<1, 5, 10, 15, 30, 60, 120>>
default_duration_index == 1

Procs == {1, 2}      \* invocations that run at the same time

VARIABLES
    now,            \* datetime.now(), in minutes
    backend,        \* the agent's BackendState
    pauseFile,      \* content of self.pause_file
    durationFile,   \* content of self.duration_file
    timers,         \* armed auto-resume timers (sleep && --auto-resume)
    proc,           \* the running invocations
    recs,           \* pause records written so far; the n-th has id n
    arConn,         \* arConn[r]: connects invoked by a firing that deleted r
    pending,        \* ids written, with no click transition and no connect
                    \* by a firing since
    shown,          \* the remaining time last answered for the record in
                    \* the pause file, -1 when none was
    canLaunch       \* whether subprocess.Popen can start the timer process

vars == <<now, backend, pauseFile, durationFile, timers, proc, recs, arConn,
          pending, shown, canLaunch>>

shared == <<backend, pauseFile, durationFile, timers>>
hist == <<recs, arConn, pending, shown>>

\* ------------------------------------------------------------------ files
Absent == [kind |-> "absent", exp |-> 0, id |-> 0]
Corrupt == [kind |-> "corrupt", exp |-> 0, id |-> 0]
Record(e, i) == [kind |-> "ok", exp |-> e, id |-> i]

DurAbsent == [kind |-> "absent", idx |-> 0]
DurCorrupt == [kind |-> "corrupt", idx |-> 0]
DurIndex(i) == [kind |-> "ok", idx |-> i]

\* Contents the duration file starts with.
DurFiles == {DurAbsent, DurIndex(0)}

\* Contents the duration file can hold: nothing, no integer, or any integer;
\* int() reads a negative one as well.
AllDurFiles ==
    {DurAbsent, DurCorrupt} \cup {DurIndex(i) : i \in -1..Len(pause_durations)}

\* get_pause_duration: <<minutes, index>>; the default unless the file holds
\* an integer within range.
get_pause_duration(f) ==
    IF f.kind = "ok" /\ 0 <= f.idx /\ f.idx < Len(pause_durations)
    THEN <<pause_durations[f.idx + 1], f.idx>>
    ELSE <<pause_durations[default_duration_index + 1], default_duration_index>>

\* -------------------------------------------------------------- processes
Idle == [kind |-> "idle", pc |-> "idle", ph |-> "none", cmd |-> "none",
         q |-> "none", bk |-> "none", st |-> "unres", rem |-> -1,
         act |-> "none", dur |-> 0, down |-> "none", pret |-> "none",
         wrote |-> FALSE, armed |-> FALSE, tid |-> 0, rexp |-> -1,
         rid |-> 0, del |-> 0, res |-> "none", out |-> "none",
         idx |-> -1, ndur |-> 0, changed |-> "none", mark |-> -1,
         thr |-> 0]

ClickKinds == {"left", "right", "middle"}
ScrollKinds == {"scrollup", "scrolldown"}
UserKinds == {"status"} \cup ClickKinds \cup ScrollKinds

Backends == {"Running", "Stopped", "NeedsLogin"}

\* The locals of a call of get_tailscale_status start empty.
Fresh(r) == [Idle EXCEPT !.kind = r.kind, !.ph = r.ph, !.pc = r.pc, !.thr = r.thr]

Set(p, r) == proc' = [proc EXCEPT ![p] = r]
At(p, pc) == proc[p].pc = pc

\* format_output: the display class of a resolved state.  A status of None
\* (get_tailscale_status fell off its end) makes status['state'] raise, and
\* get_status_output answers its error record.
format_output(st) ==
    CASE st = "Connected" -> "connected"
      [] st = "Paused" -> "paused"
      [] st = "Stopped" -> "disconnected"
      [] OTHER -> "error"

\* get_tailscale_status, lines 83-106: the state when no pause is in force.
BackendToState(bk) ==
    CASE bk = "Running" -> "Connected"
      [] bk = "Stopped" -> "Stopped"
      [] OTHER -> bk

\* main, lines 396-404: after the action, sleep and output the status, as a
\* run with --status does: the button plays no part any more.  What
\* pause_tailscale did stays on view until the status query.
ToOutput(r) ==
    [Idle EXCEPT !.kind = "status", !.ph = "out", !.pc = "query", !.down = r.down,
                 !.pret = r.pret, !.wrote = r.wrote, !.armed = r.armed,
                 !.thr = r.thr]

\* main without its except clause: an exception that escapes prints nothing.
ModuleError_silent(r) ==
    [Idle EXCEPT !.kind = r.kind, !.ph = "out", !.pc = "exit", !.st = r.st,
                 !.q = r.q]

\* main, lines 406-413: an exception that escapes prints the error record.
ModuleError(r) ==
    [Idle EXCEPT !.kind = r.kind, !.ph = "out", !.pc = "exit", !.st = r.st,
                 !.q = r.q, !.out = "error"]

\* handle_click, lines 293-317: the transition for a button and a state.
handle_click(s) ==
    LET r == [Idle EXCEPT !.kind = s.kind, !.st = s.st, !.q = s.q] IN
    IF r.kind = "middle"
    THEN [r EXCEPT !.act = "copy", !.ph = "copy", !.pc = "query"]
    ELSE IF r.st = "None"
    THEN ModuleError(r)
    ELSE IF r.kind = "left"
    THEN IF r.st = "Connected"
         THEN [r EXCEPT !.act = "stop", !.cmd = "down", !.ph = "act", !.pc = "ss_exists"]
         ELSE [r EXCEPT !.act = "start", !.cmd = "up", !.ph = "act", !.pc = "ss_exists"]
    ELSE IF r.st = "Connected"
         THEN [r EXCEPT !.act = "pause", !.ph = "act", !.pc = "pz_run"]
         ELSE IF r.st = "Paused"
              THEN [r EXCEPT !.act = "stop", !.cmd = "down", !.ph = "act", !.pc = "ss_exists"]
              ELSE [r EXCEPT !.act = "start", !.cmd = "up", !.ph = "act", !.pc = "ss_exists"]

\* What the caller of get_tailscale_status does with its answer.
Resolved(r, st, rem) ==
    LET s == [r EXCEPT !.st = st, !.rem = rem] IN
    CASE r.ph = "click" -> handle_click(s)
      [] r.ph = "copy" -> ToOutput(s)
      [] OTHER -> [s EXCEPT !.pc = "exit", !.out = format_output(st)]

\* A click that dispatches start, stop or pause is a manual transition.
Manual(p) ==
    pending' = IF proc[p].ph = "click" /\ proc'[p].ph = "act" THEN {} ELSE pending


\* ------------------------------------------------------------------ state
Init ==
    /\ now = 0
    /\ backend \in {"Running", "NeedsLogin"}
    /\ pauseFile \in {Absent, Corrupt}
    /\ durationFile \in DurFiles
    /\ timers = {}
    /\ proc = [p \in Procs |-> Idle]
    /\ recs = 0
    /\ arConn = [r \in 0..MaxPauses |-> 0]
    /\ pending = {}
    /\ shown = -1
    /\ canLaunch = TRUE

\* The right-click invocations that may still write a pause record.
Pausing ==
    {p \in Procs : proc[p].kind = "right" /\ proc[p].ph \in {"click", "act"}
                                          /\ ~proc[p].wrote}

\* The free slot a new invocation takes.
FreeSlot(p) == proc[p].kind = "idle" /\ \A o \in Procs : o < p => proc[o].kind # "idle"

\* main, lines 385-401: a run of the program with --status, --click or --scroll.
Start(p, k) ==
    /\ FreeSlot(p)
    /\ k = "right" => recs + Cardinality(Pausing) < MaxPauses
    /\ Set(p, [Idle EXCEPT !.kind = k,
                           !.ph = IF k \in ClickKinds THEN "click" ELSE "out",
                           !.pc = IF k \in ScrollKinds THEN "scroll" ELSE "query"])
    /\ UNCHANGED <<now, canLaunch, shared, hist>>

\* The timer process: sleep duration * 60, then the program with --auto-resume.
Fire(p) ==
    /\ FreeSlot(p)
    /\ \E t \in timers :
         /\ now >= t.wake
         /\ timers' = timers \ {t}
         /\ Set(p, [Idle EXCEPT !.kind = "auto", !.ph = "auto", !.pc = "ar_exists",
                                !.tid = t.id])
    /\ UNCHANGED <<now, canLaunch, backend, pauseFile, durationFile, hist>>

\* The wall clock.  Once the record in the pause file has expired no
\* remaining time is answered for it any more, and shown is forgotten.
Tick ==
    /\ now < MaxTime
    /\ now' = now + 1
    /\ shown' = IF pauseFile.kind = "ok" /\ now + 1 >= pauseFile.exp THEN -1 ELSE shown
    /\ UNCHANGED <<canLaunch, shared, proc, recs, arConn, pending>>

\* main, line 399: handle_scroll is no method of the class (its def line is
\* missing, its body is dead code at the end of copy_ip_to_clipboard), so the
\* call raises AttributeError and main prints its error record.
handle_scroll(p) ==
    /\ At(p, "scroll")
    /\ Set(p, ModuleError(proc[p]))
    /\ UNCHANGED <<now, canLaunch, shared, hist>>

\* ------------------------------------------------- get_tailscale_status
\* ResolveState with the backend state looked at before the pause.
ResolveState_backend_first(bk, rem) ==
    IF bk = "Running" THEN "Connected"
    ELSE IF rem >= 0 THEN "Paused" ELSE BackendToState(bk)

\* lines 75-106: Paused when get_pause_status answered, else by backend state.
ResolveState(bk, rem) == IF rem >= 0 THEN "Paused" ELSE BackendToState(bk)

\* lines 66-71 and 108-114: the status query.  returncode 0 goes on to the
\* pause check; an exception answers Error; a non-zero returncode leaves the
\* if without a return, and the function answers None.
get_tailscale_status(p) ==
    /\ At(p, "query")
    /\ \E o \in {"ok", "nonzero", "exc"} :
         LET r == [Fresh(proc[p]) EXCEPT !.q = o,
                                         !.bk = IF o = "ok" THEN backend ELSE "none"] IN
         Set(p, CASE o = "ok" -> [r EXCEPT !.pc = "ps_exists"]
                  [] o = "nonzero" -> Resolved(r, "None", -1)
                  [] OTHER -> Resolved(r, "Error", -1))
    /\ Manual(p)
    /\ UNCHANGED <<now, canLaunch, shared, recs, arConn, shown>>

\* get_pause_status, line 119: os.path.exists(self.pause_file).
get_pause_status_exists(p) ==
    /\ At(p, "ps_exists")
    /\ Set(p, IF pauseFile.kind = "absent"
              THEN Resolved(proc[p], ResolveState(proc[p].bk, -1), -1)
              ELSE [proc[p] EXCEPT !.pc = "ps_read"])
    /\ Manual(p)
    /\ UNCHANGED <<now, canLaunch, shared, recs, arConn, shown>>

\* get_pause_status that removes a file it cannot parse.
get_pause_status_read_heal(p) ==
    /\ At(p, "ps_read")
    /\ Set(p, IF pauseFile.kind = "ok"
              THEN IF now < pauseFile.exp
                   THEN Resolved(proc[p], ResolveState(proc[p].bk, pauseFile.exp - now),
                                 pauseFile.exp - now)
                   ELSE [proc[p] EXCEPT !.pc = "ps_remove"]
              ELSE Resolved(proc[p], ResolveState(proc[p].bk, -1), -1))
    /\ pauseFile' = IF pauseFile.kind = "corrupt" THEN Absent ELSE pauseFile
    /\ shown' = IF pauseFile.kind = "ok" /\ now < pauseFile.exp
                THEN pauseFile.exp - now ELSE shown
    /\ Manual(p)
    /\ UNCHANGED <<now, canLaunch, backend, durationFile, timers, recs, arConn>>

\* get_pause_status that does not compare the stored expiry with now.
get_pause_status_read_no_expiry(p) ==
    /\ At(p, "ps_read")
    /\ Set(p, IF pauseFile.kind = "ok"
              THEN Resolved(proc[p], ResolveState(proc[p].bk, 0), 0)
              ELSE Resolved(proc[p], ResolveState(proc[p].bk, -1), -1))
    /\ shown' = IF pauseFile.kind = "ok" THEN 0 ELSE shown
    /\ Manual(p)
    /\ UNCHANGED <<now, canLaunch, shared, recs, arConn>>

\* get_pause_status, lines 120-129: open, read, fromisoformat, compare with
\* now.  A file deleted meanwhile or an unparsable body raises; the except
\* clause passes and the function answers None, the file left as it is.
get_pause_status_read(p) ==
    /\ At(p, "ps_read")
    /\ Set(p, IF pauseFile.kind = "ok"
              THEN IF now < pauseFile.exp
                   THEN Resolved(proc[p], ResolveState(proc[p].bk, pauseFile.exp - now),
                                 pauseFile.exp - now)
                   ELSE [proc[p] EXCEPT !.pc = "ps_remove"]
              ELSE Resolved(proc[p], ResolveState(proc[p].bk, -1), -1))
    /\ shown' = IF pauseFile.kind = "ok" /\ now < pauseFile.exp
                THEN pauseFile.exp - now ELSE shown
    /\ Manual(p)
    /\ UNCHANGED <<now, canLaunch, shared, recs, arConn>>

\* get_pause_status, lines 130-132: the pause expired, os.remove.  When the
\* file is gone already the remove raises and the except clause passes.
get_pause_status_remove(p) ==
    /\ At(p, "ps_remove")
    /\ pauseFile' = Absent
    /\ Set(p, Resolved(proc[p], ResolveState(proc[p].bk, -1), -1))
    /\ Manual(p)
    /\ shown' = -1
    /\ UNCHANGED <<now, canLaunch, backend, durationFile, timers, recs, arConn>>

\* ------------------------------------------- start_tailscale / stop_tailscale
\* An exception inside auto_resume goes to its except clause (line 281); one
\* inside a click escapes to main, which prints the error record.
Raise(r) ==
    IF r.ph = "auto" THEN [r EXCEPT !.pc = "ar_h_exists"] ELSE ModuleError(r)

\* start_tailscale and stop_tailscale that leave the pause file alone.
start_stop_exists_keep(p) ==
    /\ At(p, "ss_exists")
    /\ Set(p, [proc[p] EXCEPT !.st = "unres", !.q = "none", !.mark = recs,
                               !.pc = "ss_run"])
    /\ UNCHANGED <<now, canLaunch, shared, hist>>

\* lines 215 and 222: os.path.exists(self.pause_file).  mark notes how many
\* records had been written when the file was found or made absent.
start_stop_exists(p) ==
    /\ At(p, "ss_exists")
    /\ Set(p, IF pauseFile.kind = "absent"
              THEN [proc[p] EXCEPT !.st = "unres", !.q = "none", !.mark = recs,
                                   !.pc = "ss_run"]
              ELSE [proc[p] EXCEPT !.st = "unres", !.q = "none", !.pc = "ss_remove"])
    /\ UNCHANGED <<now, canLaunch, shared, hist>>

\* lines 216 and 223: os.remove(self.pause_file); raises when the file is gone.
start_stop_remove(p) ==
    /\ At(p, "ss_remove")
    /\ pauseFile' = Absent
    /\ Set(p, IF pauseFile.kind = "absent"
              THEN Raise(proc[p])
              ELSE [proc[p] EXCEPT !.mark = recs, !.pc = "ss_run"])
    /\ shown' = -1
    /\ UNCHANGED <<now, canLaunch, backend, durationFile, timers, recs, arConn, pending>>

\* run_command, lines 204-210, on 'tailscale up' or 'tailscale down': true
\* iff the command exits zero; a command that succeeds moves the agent.
run_command(cmd, ok) ==
    IF ok THEN (IF cmd = "up" THEN "Running" ELSE "Stopped") ELSE backend

\* lines 217 and 224: the agent command, then back to the caller: a click
\* goes on to its output, auto_resume is done.
start_stop_run(p) ==
    /\ At(p, "ss_run")
    /\ \E ok \in BOOLEAN : backend' = run_command(proc[p].cmd, ok)
    /\ IF proc[p].ph = "auto"
       THEN /\ Set(p, [proc[p] EXCEPT !.pc = "exit", !.res = "resumed", !.mark = -1])
            /\ arConn' = [arConn EXCEPT ![proc[p].del] = @ + 1]
            /\ pending' = {}
       ELSE /\ Set(p, ToOutput(proc[p]))
            /\ UNCHANGED <<arConn, pending>>
    /\ UNCHANGED <<now, canLaunch, pauseFile, durationFile, timers, recs, shown>>

\* -------------------------------------------------------- pause_tailscale
\* pause_tailscale that does not look at what run_command returned.
pause_tailscale_run_unchecked(p) ==
    /\ At(p, "pz_run")
    /\ \E ok \in BOOLEAN :
         /\ backend' = run_command("down", ok)
         /\ Set(p, [proc[p] EXCEPT !.st = "unres", !.q = "none",
                                    !.dur = get_pause_duration(durationFile)[1],
                                    !.down = IF ok THEN "ok" ELSE "fail",
                                    !.pc = "pz_write"])
    /\ UNCHANGED <<now, canLaunch, pauseFile, durationFile, timers, hist>>

\* lines 228-230 and 239: read the duration, run 'tailscale down'; when the
\* command fails, return False.
pause_tailscale_run(p) ==
    /\ At(p, "pz_run")
    /\ \E ok \in BOOLEAN :
         /\ backend' = run_command("down", ok)
         /\ LET r == [proc[p] EXCEPT !.st = "unres", !.q = "none",
                                      !.dur = get_pause_duration(durationFile)[1]] IN
            Set(p, IF ok
                   THEN [r EXCEPT !.down = "ok", !.pc = "pz_write"]
                   ELSE ToOutput([r EXCEPT !.down = "fail", !.pret = "False"]))
    /\ UNCHANGED <<now, canLaunch, pauseFile, durationFile, timers, hist>>

\* lines 232-234: pause_end = now + duration, written over the pause file.
pause_tailscale_write(p) ==
    /\ At(p, "pz_write")
    /\ recs' = recs + 1
    /\ pauseFile' = Record(now + proc[p].dur, recs + 1)
    /\ Set(p, [proc[p] EXCEPT !.wrote = TRUE, !.tid = recs + 1, !.pc = "pz_sched"])
    /\ pending' = pending \cup {recs + 1}
    /\ shown' = -1
    /\ UNCHANGED <<now, canLaunch, backend, durationFile, timers, arConn>>

\* schedule_auto_resume, lines 241-264, and line 238: launch the detached
\* sleeper, or the timer thread when Popen raises; pause_tailscale returns
\* True.  Either timer sleeps duration * 60 seconds from here and then runs
\* auto_resume.  The clock stops at MaxTime: the timers due later than that
\* never fire, and are all kept as due at MaxTime + 1.
schedule_auto_resume(p) ==
    /\ At(p, "pz_sched")
    /\ timers' = timers \cup {[id |-> proc[p].tid,
                                wake |-> IF now + proc[p].dur > MaxTime
                                         THEN MaxTime + 1 ELSE now + proc[p].dur]}
    /\ Set(p, ToOutput([proc[p] EXCEPT !.armed = TRUE, !.pret = "True",
                                       !.thr = IF canLaunch THEN 0 ELSE proc[p].tid]))
    /\ UNCHANGED <<now, canLaunch, backend, pauseFile, durationFile, hist>>

\* ------------------------------------------------------------ auto_resume
\* auto_resume that reconnects whether or not a pause file is there.
auto_resume_exists_always(p) ==
    /\ At(p, "ar_exists")
    /\ Set(p, IF pauseFile.kind = "absent"
              THEN [proc[p] EXCEPT !.cmd = "up", !.pc = "ss_exists"]
              ELSE [proc[p] EXCEPT !.pc = "ar_read"])
    /\ UNCHANGED <<now, canLaunch, shared, hist>>

\* line 270: os.path.exists(self.pause_file); no file, nothing to do.
auto_resume_exists(p) ==
    /\ At(p, "ar_exists")
    /\ Set(p, IF pauseFile.kind = "absent"
              THEN [proc[p] EXCEPT !.pc = "exit", !.res = "absent"]
              ELSE [proc[p] EXCEPT !.pc = "ar_read"])
    /\ UNCHANGED <<now, canLaunch, shared, hist>>

\* auto_resume that trusts the time slept and not the stored expiry.
auto_resume_read_unvalidated(p) ==
    /\ At(p, "ar_read")
    /\ Set(p, IF pauseFile.kind = "ok"
              THEN [proc[p] EXCEPT !.rexp = pauseFile.exp, !.rid = pauseFile.id,
                                   !.pc = "ar_remove"]
              ELSE Raise(proc[p]))
    /\ UNCHANGED <<now, canLaunch, shared, hist>>

\* lines 272-277: open, read, fromisoformat, compare with now.  A file that
\* is gone or unparsable raises.
auto_resume_read(p) ==
    /\ At(p, "ar_read")
    /\ Set(p, IF pauseFile.kind = "ok"
              THEN IF now >= pauseFile.exp
                   THEN [proc[p] EXCEPT !.rexp = pauseFile.exp, !.rid = pauseFile.id,
                                        !.pc = "ar_remove"]
                   ELSE [proc[p] EXCEPT !.rexp = pauseFile.exp, !.rid = pauseFile.id,
                                        !.pc = "exit", !.res = "future"]
              ELSE Raise(proc[p]))
    /\ UNCHANGED <<now, canLaunch, shared, hist>>

\* auto_resume whose remove tolerates a file that is gone already.
auto_resume_remove_tolerant(p) ==
    /\ At(p, "ar_remove")
    /\ pauseFile' = Absent
    /\ Set(p, [proc[p] EXCEPT !.del = proc[p].rid, !.cmd = "up", !.pc = "ss_exists"])
    /\ shown' = -1
    /\ UNCHANGED <<now, canLaunch, backend, durationFile, timers, recs, arConn, pending>>

\* line 278: os.remove(self.pause_file), then start_tailscale (line 280).
auto_resume_remove(p) ==
    /\ At(p, "ar_remove")
    /\ pauseFile' = Absent
    /\ Set(p, IF pauseFile.kind = "absent"
              THEN Raise(proc[p])
              ELSE [proc[p] EXCEPT !.del = pauseFile.id, !.cmd = "up",
                                   !.pc = "ss_exists"])
    /\ shown' = -1
    /\ UNCHANGED <<now, canLaunch, backend, durationFile, timers, recs, arConn, pending>>

\* lines 281-283: the except clause tests for the file again.
auto_resume_handler_exists(p) ==
    /\ At(p, "ar_h_exists")
    /\ Set(p, IF pauseFile.kind = "absent"
              THEN [proc[p] EXCEPT !.pc = "exit", !.res = "handled"]
              ELSE [proc[p] EXCEPT !.pc = "ar_h_remove"])
    /\ UNCHANGED <<now, canLaunch, shared, hist>>

\* lines 284-287: and removes it, whatever it holds.
auto_resume_handler_remove(p) ==
    /\ At(p, "ar_h_remove")
    /\ pauseFile' = Absent
    /\ Set(p, [proc[p] EXCEPT !.pc = "exit", !.res = "handled"])
    /\ shown' = -1
    /\ UNCHANGED <<now, canLaunch, backend, durationFile, timers, recs, arConn, pending>>

\* schedule_auto_resume, line 264: the fallback timer is a thread with
\* daemon=False, and the interpreter joins such a thread before the process
\* ends.  The thread of p (thr, the id of its timer) is done when its timer
\* has fired and the auto_resume it ran has returned.
ThreadDone(p) ==
    \/ proc[p].thr = 0
    \/ /\ \A t \in timers : t.id # proc[p].thr
       /\ \A o \in Procs : ~(proc[o].kind = "auto" /\ proc[o].tid = proc[p].thr)

\* The process ends.  With the firing of its timer over, a record is of no
\* concern to pending any more.
Exit(p) ==
    /\ At(p, "exit")
    /\ ThreadDone(p)
    /\ Set(p, Idle)
    /\ pending' = IF proc[p].kind = "auto" THEN pending \ {proc[p].tid} ELSE pending
    /\ UNCHANGED <<now, canLaunch, shared, recs, arConn, shown>>

Next ==
    \/ Tick
    \/ \E p \in Procs : \E k \in UserKinds : Start(p, k)
    \/ \E p \in Procs : Fire(p)
    \/ \E p \in Procs : handle_scroll(p)
    \/ \E p \in Procs : get_tailscale_status(p)
    \/ \E p \in Procs : get_pause_status_exists(p)
    \/ \E p \in Procs : get_pause_status_read(p)
    \/ \E p \in Procs : get_pause_status_remove(p)
    \/ \E p \in Procs : start_stop_exists(p)
    \/ \E p \in Procs : start_stop_remove(p)
    \/ \E p \in Procs : start_stop_run(p)
    \/ \E p \in Procs : pause_tailscale_run(p)
    \/ \E p \in Procs : pause_tailscale_write(p)
    \/ \E p \in Procs : schedule_auto_resume(p)
    \/ \E p \in Procs : auto_resume_exists(p)
    \/ \E p \in Procs : auto_resume_read(p)
    \/ \E p \in Procs : auto_resume_remove(p)
    \/ \E p \in Procs : auto_resume_handler_exists(p)
    \/ \E p \in Procs : auto_resume_handler_remove(p)
    \/ \E p \in Procs : Exit(p)

Spec == Init /\ [][Next]_vars

\* The program on a machine where the timer process may fail to launch, so
\* that schedule_auto_resume takes its except clause (lines 258-264).
InitFallback ==
    /\ now = 0
    /\ backend \in {"Running", "NeedsLogin"}
    /\ pauseFile \in {Absent, Corrupt}
    /\ durationFile \in DurFiles
    /\ timers = {}
    /\ proc = [p \in Procs |-> Idle]
    /\ recs = 0
    /\ arConn = [r \in 0..MaxPauses |-> 0]
    /\ pending = {}
    /\ shown = -1
    /\ canLaunch \in BOOLEAN

SpecFallback == InitFallback /\ [][Next]_vars

\* ------------------------------------------------ duration preference
\* The duration preference store driven on its own: get_pause_duration and
\* adjust_pause_duration called by invocations that do nothing else.  No
\* invocation of main reaches adjust_pause_duration (see handle_scroll).
StoreKinds == {"get", "adjust_up", "adjust_down"}

\* adjust_pause_duration with an index that wraps around at the ends.
new_index_wrapping(i, direction) ==
    IF direction = "up" THEN (i + 1) % Len(pause_durations)
    ELSE (i - 1) % Len(pause_durations)

\* adjust_pause_duration, lines 164-167: one up or down, held at the ends.
new_index(i, direction) ==
    IF direction = "up"
    THEN (IF i + 1 < Len(pause_durations) - 1 THEN i + 1 ELSE Len(pause_durations) - 1)
    ELSE (IF i - 1 > 0 THEN i - 1 ELSE 0)

\* set_pause_duration_index, lines 149-158: the index clamped and written.
set_pause_duration_index(i) ==
    LET c == IF i < 0 THEN 0
             ELSE IF i > Len(pause_durations) - 1 THEN Len(pause_durations) - 1 ELSE i
    IN DurIndex(c)

\* adjust_pause_duration, lines 160-170: the file after scrolling from f.
adjust_pause_duration(f, direction) ==
    set_pause_duration_index(new_index(get_pause_duration(f)[2], direction))

InitDur ==
    /\ now = 0
    /\ backend = "Stopped"
    /\ pauseFile = Absent
    /\ durationFile \in AllDurFiles
    /\ timers = {}
    /\ proc = [p \in Procs |-> Idle]
    /\ recs = 0
    /\ arConn = [r \in 0..MaxPauses |-> 0]
    /\ pending = {}
    /\ shown = -1
    /\ canLaunch = TRUE

\* A caller of the store.
StoreStart(p, k) ==
    /\ FreeSlot(p)
    /\ Set(p, [Idle EXCEPT !.kind = k, !.ph = "store", !.pc = "dp_read"])
    /\ UNCHANGED <<now, canLaunch, shared, hist>>

\* get_pause_duration, lines 137-147, alone or as line 162 of
\* adjust_pause_duration: the file is read.
duration_read(p) ==
    /\ At(p, "dp_read")
    /\ LET g == get_pause_duration(durationFile) IN
       Set(p, [proc[p] EXCEPT !.dur = g[1], !.idx = g[2],
                              !.pc = IF proc[p].kind = "get" THEN "exit" ELSE "dp_write"])
    /\ UNCHANGED <<now, canLaunch, shared, hist>>

\* adjust_pause_duration, lines 164-170: the new index is written and the
\* new duration returned with changed = (current_duration != new_duration).
duration_write(p) ==
    /\ At(p, "dp_write")
    /\ LET f == set_pause_duration_index(
                    new_index(proc[p].idx,
                              IF proc[p].kind = "adjust_up" THEN "up" ELSE "down"))
           nd == pause_durations[f.idx + 1]
       IN /\ durationFile' = f
          /\ Set(p, [proc[p] EXCEPT !.ndur = nd,
                                    !.changed = IF proc[p].dur # nd THEN "True" ELSE "False",
                                    !.pc = "exit"])
    /\ UNCHANGED <<now, canLaunch, backend, pauseFile, timers, hist>>

NextDur ==
    \/ \E p \in Procs : \E k \in StoreKinds : StoreStart(p, k)
    \/ \E p \in Procs : duration_read(p)
    \/ \E p \in Procs : duration_write(p)
    \/ \E p \in Procs : Exit(p)

SpecDur == InitDur /\ [][NextDur]_vars

\* ----------------------------------------------------------------- claims
Auto(p) == proc[p].kind = "auto"
Stepped(p) == proc'[p] # proc[p]

\* C1: once a pause has succeeded (record r written, timer armed) and the
\* timer armed for r has fired and finished, no other firing being under
\* way, then either a click transition took place after r was written or an
\* auto-resume firing invoked connect after r was written.
C1_AutoResumeConnects ==
    \A p \in Procs :
        (/\ Auto(p) /\ At(p, "exit")
         /\ \A o \in Procs \ {p} : Auto(o) => At(o, "exit"))
          => proc[p].tid \notin pending

\* C2: every connect invoked by an auto-resume firing follows that firing's
\* own deletion of a pause record, and no record is consumed by two firings:
\* per record, connect is invoked at most once.
C2_ConnectAtMostOncePerRecord ==
    /\ arConn[0] = 0
    /\ \A r \in 1..MaxPauses : arConn[r] <= 1

\* Two firings read the same record; one consumed it and connected, the
\* other found it gone and did nothing.
C2_Witness ==
    \E p \in Procs : \E r \in 1..MaxPauses :
        /\ arConn[r] = 1
        /\ Auto(p) /\ At(p, "exit") /\ proc[p].rid = r /\ proc[p].res = "handled"

\* C3: a firing of auto_resume that finds no pause file ends there: it
\* invokes no agent action and leaves the pause file, the duration file and
\* the agent as they are.
C3_AbsentRecordNoOp ==
    [][\A p \in Procs :
         /\ (At(p, "ar_exists") /\ Stepped(p) /\ pauseFile.kind = "absent")
              => /\ proc'[p].pc = "exit" /\ proc'[p].res = "absent"
                 /\ UNCHANGED <<pauseFile, durationFile, backend, arConn>>
         /\ (Auto(p) /\ At(p, "exit") /\ Stepped(p))
              => /\ proc'[p] = Idle
                 /\ UNCHANGED <<pauseFile, durationFile, backend, arConn>>]_vars

C3_Witness ==
    \E p \in Procs : Auto(p) /\ At(p, "exit") /\ proc[p].res = "absent"

\* C4: a firing of auto_resume that reads a record whose stored expiry is
\* later than now ends there, the record in place and no agent action
\* invoked; the firing goes on to delete and connect only after reading a
\* record whose stored expiry has passed.
C4_OnlyExpiredRecordResumes ==
    [][\A p \in Procs :
         /\ (At(p, "ar_read") /\ Stepped(p) /\ pauseFile.kind = "ok"
                              /\ pauseFile.exp > now)
              => /\ proc'[p].pc = "exit" /\ proc'[p].res = "future"
                 /\ UNCHANGED <<pauseFile, durationFile, backend, arConn>>
         /\ (At(p, "ar_read") /\ Stepped(p) /\ proc'[p].pc = "ar_remove")
              => pauseFile.kind = "ok" /\ pauseFile.exp <= now
         /\ (Auto(p) /\ proc[p].pc \in {"ar_remove", "ss_exists", "ss_remove", "ss_run"})
              => 0 <= proc[p].rexp /\ proc[p].rexp <= now
         /\ (Auto(p) /\ At(p, "ss_run") /\ Stepped(p))
              => proc[p].del >= 1 /\ proc[p].rid >= 1]_vars

\* The timer armed for one pause fires on the record of a newer pause that
\* has not expired.
C4_Witness ==
    \E p \in Procs :
        /\ Auto(p) /\ At(p, "exit") /\ proc[p].res = "future"
        /\ proc[p].rid # proc[p].tid /\ proc[p].rexp > now
        /\ pauseFile.kind = "ok" /\ pauseFile.id = proc[p].rid

\* C5: when the disconnect command of pause_tailscale fails, that step
\* returns false and writes no record and arms no timer; a record is written
\* only by a pause whose disconnect succeeded, and a timer is armed only by
\* a pause that wrote its record.
C5_FailedDisconnectNoPause ==
    [][/\ \A p \in Procs :
            (At(p, "pz_run") /\ Stepped(p) /\ proc'[p].down # "ok")
              => /\ proc'[p].pret = "False" /\ proc'[p].ph = "out"
                 /\ ~proc'[p].wrote /\ ~proc'[p].armed
                 /\ UNCHANGED <<pauseFile, timers, recs>>
       /\ (pauseFile'.kind = "ok" /\ pauseFile' # pauseFile)
              => \E p \in Procs : At(p, "pz_write") /\ Stepped(p) /\ proc[p].down = "ok"
       /\ (timers' \ timers # {})
              => \E p \in Procs : At(p, "pz_sched") /\ Stepped(p) /\ proc[p].wrote
                                  /\ proc[p].down = "ok"]_vars

C5_Witness ==
    \E p \in Procs : proc[p].down = "fail" /\ proc[p].pret = "False"
                     /\ proc[p].ph = "out" /\ At(p, "query")

\* C6: when get_pause_status reads a pause file whose body is no timestamp,
\* it answers none and the file is gone afterwards.
C6_CorruptRecordDeleted ==
    [][\A p \in Procs :
         (At(p, "ps_read") /\ Stepped(p) /\ pauseFile.kind = "corrupt")
            => pauseFile'.kind = "absent" /\ proc'[p].st # "Paused"]_vars

\* The session states: Connected, Paused, Stopped, Error, and Unknown with
\* the raw backend state.
SessionStates == {"Connected", "Paused", "Stopped", "Error"}
                    \cup (Backends \ {"Running", "Stopped"})

\* C7: get_tailscale_status answers one of the session states, and Error
\* whenever the status query failed (non-zero exit, or an exception).
C7_ResolverClosedSet ==
    \A p \in Procs :
        proc[p].st # "unres"
          => /\ proc[p].st \in SessionStates
             /\ proc[p].q \in {"nonzero", "exc"} => proc[p].st = "Error"

\* The state answered after a successful query, by the backend state and
\* the answer of get_pause_status.
C8_StateOfAnswer ==
    \A p \in Procs :
        (proc[p].st # "unres" /\ proc[p].q = "ok" /\ proc[p].bk # "none")
          => /\ proc[p].rem >= 0 => proc[p].st = "Paused"
             /\ proc[p].st = "Connected" <=> (proc[p].bk = "Running" /\ proc[p].rem < 0)
             /\ (proc[p].bk = "Stopped" /\ proc[p].rem < 0) => proc[p].st = "Stopped"
             /\ (proc[p].bk \notin {"Running", "Stopped"} /\ proc[p].rem < 0)
                   => proc[p].st = proc[p].bk

\* C8: when the status query succeeded, the state handed to handle_click or
\* to format_output is Paused if the pause record read holds an unexpired
\* expiry, whatever the backend state; else Connected for Running, Stopped
\* for Stopped, and the raw value otherwise.
C8_PausedOverridesBackend ==
    /\ []C8_StateOfAnswer
    /\ [][\A p \in Procs :
            (At(p, "ps_read") /\ Stepped(p) /\ proc[p].ph \in {"click", "out"}
                              /\ pauseFile.kind = "ok" /\ now < pauseFile.exp)
               => proc'[p].st = "Paused"]_vars

C8_Witness ==
    \E p \in Procs : /\ proc[p].st = "Paused" /\ proc[p].q = "ok"
                     /\ proc[p].bk = "Running" /\ proc[p].rem >= 1

\* The dispatch table of the action dispatcher; a state outside Connected
\* and Paused is in the column Stopped/Unknown/Error.
DispatchTable(button, st) ==
    IF button = "left"
    THEN (IF st = "Connected" THEN "stop" ELSE "start")
    ELSE (IF st = "Connected" THEN "pause" ELSE IF st = "Paused" THEN "stop" ELSE "start")

\* C9: a left or right click performs the transition the dispatch table
\* gives for the answer of the status resolution; a failed status query
\* leads to start.
C9_DispatchTable ==
    \A p \in Procs :
        (proc[p].kind \in {"left", "right"} /\ proc[p].st # "unres")
          => proc[p].act = DispatchTable(proc[p].kind, proc[p].st)

\* C10: a scroll invocation stores the duration index moved by one and
\* clamped, invokes no agent action, and goes on to output the status.
C10_ScrollAdjustsDuration ==
    [][\A p \in Procs :
         (At(p, "scroll") /\ Stepped(p))
            => /\ durationFile' = adjust_pause_duration(
                                     durationFile,
                                     IF proc[p].kind = "scrollup" THEN "up" ELSE "down")
               /\ UNCHANGED backend
               /\ proc'[p].ph = "out" /\ proc'[p].pc = "query"]_vars

LastIndex == Len(pause_durations) - 1

ClampedRead(f) ==
    IF f.kind # "ok" THEN default_duration_index
    ELSE IF f.idx < 0 THEN 0
    ELSE IF f.idx > LastIndex THEN LastIndex ELSE f.idx

\* C12: get_pause_duration answers the default index for a missing or
\* unparsable file and otherwise the stored integer clamped into range.
C12_ReadClamps ==
    [][\A p \in Procs :
         (At(p, "dp_read") /\ Stepped(p))
            => /\ proc'[p].idx = ClampedRead(durationFile)
               /\ proc'[p].dur = pause_durations[ClampedRead(durationFile) + 1]]_vars

OutputClasses == {"connected", "paused", "disconnected", "error"}

\* The steps of the invocation in slot p.
Step(p) ==
    \/ handle_scroll(p)
    \/ get_tailscale_status(p)
    \/ get_pause_status_exists(p)
    \/ get_pause_status_read(p)
    \/ get_pause_status_remove(p)
    \/ start_stop_exists(p)
    \/ start_stop_remove(p)
    \/ start_stop_run(p)
    \/ pause_tailscale_run(p)
    \/ pause_tailscale_write(p)
    \/ schedule_auto_resume(p)

\* The positions of an invocation before its end; each is the position of
\* one of the steps above.
StepPcs == {"scroll", "query", "ps_exists", "ps_read", "ps_remove", "ss_exists",
            "ss_remove", "ss_run", "pz_run", "pz_write", "pz_sched"}

\* At each of these positions the step is enabled: nothing in the program
\* waits for another invocation.
StepsEnabled ==
    \A p \in Procs :
        (proc[p].kind \in UserKinds /\ proc[p].pc \in StepPcs) => ENABLED Step(p)

\* C13: every status, click and scroll invocation prints exactly one record,
\* of class connected, paused, disconnected or error, whatever the agent
\* answers and whatever the pause file holds: nothing is printed before its
\* last step, before its end it is at a position where it has a next step,
\* the step that brings it to its end prints one record of these classes,
\* and it ends only from there.
C13_OneRecordPerInvocation ==
    /\ [](\A p \in Procs :
            proc[p].kind \in UserKinds
              => /\ At(p, "exit") => proc[p].out \in OutputClasses
                 /\ ~At(p, "exit") => proc[p].out = "none" /\ proc[p].pc \in StepPcs)
    /\ [][\A p \in Procs :
            (proc[p].kind \in UserKinds /\ Stepped(p))
              => /\ proc'[p].kind = "idle" => At(p, "exit")
                 /\ At(p, "exit") => proc'[p].kind = "idle"]_vars

\* A click or scroll whose own failure came out as the error record.
C13_Witness ==
    \E p \in Procs :
        /\ proc[p].kind \in ClickKinds \cup ScrollKinds
        /\ At(p, "exit") /\ proc[p].out = "error"

StatusPcs == {"query", "ps_exists", "ps_read", "ps_remove"}

\* The step of p ends a call of get_tailscale_status whose answer stays on
\* view (a click dispatches on it, a status run prints it).
Resolves(p) ==
    /\ proc[p].pc \in StatusPcs /\ proc[p].ph \in {"click", "out"}
    /\ Stepped(p) /\ proc'[p].pc \notin StatusPcs

\* C14 as stated: once a pause has succeeded, while its record is in the
\* pause file with its expiry ahead, every resolution answers Paused.
C14_EveryResolutionPaused ==
    [][\A p \in Procs :
         (Resolves(p) /\ pauseFile.kind = "ok" /\ now < pauseFile.exp
             /\ pauseFile' = pauseFile
             /\ \A o \in Procs : proc[o].tid # pauseFile.id)
           => proc'[p].st = "Paused"]_vars

\* C14, amended: a resolution whose status query succeeded and that reads
\* the record before its stored expiry answers Paused with the time left to
\* that expiry, which is never more than what the resolution before it
\* answered for this record; one that reads it at or after the expiry
\* removes the pause file and answers the state of the backend.
C14_PausedUntilExpiry ==
    [][\A p \in Procs :
         /\ (At(p, "ps_read") /\ Stepped(p) /\ pauseFile.kind = "ok"
                /\ now < pauseFile.exp)
              => /\ proc[p].ph \in {"click", "out"} => proc'[p].st = "Paused"
                 /\ proc[p].ph = "out" => proc'[p].rem = pauseFile.exp - now
                 /\ shown' = pauseFile.exp - now
                 /\ shown >= 0 => shown' <= shown
         /\ (At(p, "ps_read") /\ Stepped(p) /\ pauseFile.kind = "ok"
                /\ now >= pauseFile.exp)
              => proc'[p].pc = "ps_remove"
         /\ (At(p, "ps_remove") /\ Stepped(p))
              => /\ pauseFile' = Absent
                 /\ proc[p].ph \in {"click", "out"}
                      => proc'[p].st = BackendToState(proc[p].bk)]_vars

\* An answer for the record after the clock moved: less than the duration
\* paused for is left.
C14_Witness ==
    \E p \in Procs :
        /\ At(p, "exit") /\ proc[p].st = "Paused" /\ pauseFile.kind = "ok"
        /\ proc[p].rem = shown /\ shown = pauseFile.exp - now
        /\ shown < get_pause_duration(durationFile)[1]

\* C15: start_tailscale and stop_tailscale clear the pause file before they
\* invoke the agent: the agent is not touched by the steps that clear, and
\* at the step that runs the command and returns, unless a record was
\* written since the clearing, the pause file is absent and stays absent,
\* the command succeeding or failing; the duration file is not changed.
C15_StartStopClearPause ==
    [][\A p \in Procs :
         /\ ((At(p, "ss_exists") \/ At(p, "ss_remove")) /\ Stepped(p))
              => backend' = backend /\ durationFile' = durationFile
         /\ (At(p, "ss_run") /\ Stepped(p))
              => /\ proc[p].mark = recs => pauseFile = Absent /\ pauseFile' = Absent
                 /\ durationFile' = durationFile]_vars

\* A right-click found the session Paused and dispatched stop; the record
\* is gone, none was written since, and stop_tailscale is about to run its
\* command.
C15_Witness ==
    \E p \in Procs :
        /\ At(p, "ss_run") /\ proc[p].kind = "right" /\ proc[p].act = "stop"
        /\ proc[p].mark = recs /\ recs >= 1 /\ pauseFile = Absent

\* C16 as stated: no step of get_tailscale_status changes the pause file or
\* the duration file.
C16_ResolutionIsPure ==
    [][\A p \in Procs :
         (proc[p].pc \in StatusPcs /\ Stepped(p))
            => pauseFile' = pauseFile /\ durationFile' = durationFile]_vars

\* C16, amended: get_tailscale_status never changes the duration file and
\* never creates or rewrites the pause file; the one change it makes is to
\* delete the pause file, in the step it takes only after it has read a
\* record whose stored expiry has passed.
C16_ResolutionOnlyExpires ==
    [][\A p \in Procs :
         (proc[p].pc \in StatusPcs /\ Stepped(p))
            => /\ durationFile' = durationFile
               /\ pauseFile' = pauseFile \/ (pauseFile' = Absent /\ At(p, "ps_remove"))
               /\ proc'[p].pc = "ps_remove"
                    => pauseFile.kind = "ok" /\ pauseFile.exp <= now]_vars

\* A status run has ended, and the newest record, which no click and no
\* firing has dealt with and whose timer is still asleep, is gone.
C16_Witness ==
    /\ recs >= 1 /\ pauseFile = Absent /\ recs \in pending
    /\ \E t \in timers : t.id = recs
    /\ \A o \in Procs : ~Auto(o)
    /\ \E p \in Procs : At(p, "exit") /\ proc[p].kind = "status" /\ proc[p].q = "ok"

\* C17: the content of the pause file changes only by creation from absent
\* or by deletion; no step writes over a file that is there.
C17_NeverOverwritten ==
    [][pauseFile' # pauseFile => pauseFile = Absent \/ pauseFile' = Absent]_vars

\* C18: a record whose stored expiry is still ahead is deleted by nothing
\* but the start or stop a click dispatched: not by the lazy expiry of a
\* status resolution, not by a firing of auto_resume, its except clause or
\* its start_tailscale.
C18_LiveRecordOnlyClearedByClick ==
    [][(pauseFile.kind = "ok" /\ pauseFile.exp > now /\ pauseFile' = Absent)
         => \E p \in Procs :
              /\ Stepped(p) /\ At(p, "ss_remove")
              /\ proc[p].ph = "act" /\ proc[p].act \in {"start", "stop"}]_vars

\* C19: when the detached timer process cannot be launched, the fallback
\* timer thread does not hold up the invocation: once the click has printed
\* its record the process can end, the timer still asleep.
C19_FallbackDoesNotBlock ==
    \A p \in Procs :
        (At(p, "exit") /\ \E t \in timers : t.id = proc[p].thr) => ENABLED Exit(p)

\* The timing half of C20: a firing that reads the record its own pause
\* wrote reads an expiry that has passed, and so takes the branch that
\* removes the file.
TimerNotBeforeExpiry ==
    /\ [](\A p \in Procs :
            (Auto(p) /\ proc[p].rid # 0 /\ proc[p].rid = proc[p].tid)
               => proc[p].rexp <= now /\ proc[p].res # "future")
    /\ [](\A t \in timers :
            (pauseFile.kind = "ok" /\ pauseFile.id = t.id)
               => pauseFile.exp <= t.wake \/ t.wake > MaxTime)

\* C20: a firing that finds the record written by its own pause finds its
\* expiry passed, deletes it and invokes connect.
C20_OwnRecordFiringConnects ==
    \A p \in Procs :
        (Auto(p) /\ At(p, "exit") /\ proc[p].rid # 0 /\ proc[p].rid = proc[p].tid)
           => /\ proc[p].rexp <= now
              /\ proc[p].del = proc[p].rid
              /\ proc[p].res = "resumed"

====
